---- MODULE Spec2Model ----
(***************************************************************************)
(* Base-station coordination core of src/base station/backend/main.py:     *)
(* device registry, issue store, pending queue, dispatch of movement       *)
(* commands and completion handling, as executed by its worker threads     *)
(* (UDP listener, one thread per inbound TCP connection, sweeper, HTTP).   *)
(*                                                                         *)
(* Granularity: a thread is pre-empted only where the code blocks on a     *)
(* socket (connect/send of a MOVEMENT_COMMAND, a CONNECTION_ACK) or when   *)
(* it starts/finishes a handler.  The statements between two such points   *)
(* are taken as one step.                                                  *)
(***************************************************************************)
EXTENDS Integers, Sequences, FiniteSets, TLC

\* ------------------------------------------------------------------ bounds
MaxEvents == 6         \* QR_SCAN frames, CONNECTION_REQUEST datagrams and
                       \* MOVEMENT_COMMANDs delivered, in total
MaxTicks == 2          \* steps of the wall clock

\* --------------------------------------------------------------- universe
NoTask == 0            \* dev.get("task_id") is None / missing
NoDev == "none"

Robots == {"R1", "R2"}
Drones == {"D1"}
DeviceIds == Robots \cup Drones

\* device_type of the CONNECTION_REQUEST each device sends
device_type_of(d) == IF d \in Robots THEN "robot" ELSE "drone"

\* "position" of the CONNECTION_REQUEST each device broadcasts
position_of(d) == [x |-> 0, y |-> 0, z |-> 0]

\* sender_ip of each device: D1 runs on the same host as R1
sender_ip_of(d) == IF d = "R2" THEN "ip2" ELSE "ip1"

\* "status" of a TASK_COMPLETED frame; the robot sends "completed"
Statuses == {"completed", "failed", "missing"}

\* values of random.random(), in hundredths
ExploreDraw == 0
ExploitDraw == 99
RandomDraws == {ExploreDraw, ExploitDraw}
DrawSeqs == [1..2 -> RandomDraws]

\* outcome of the CONNECTION_ACK connect/send explored
AckOutcomes == {TRUE}

UdpThread == "udp"
TcpThreads == {"c1", "c2"}
Threads == {UdpThread} \cup TcpThreads

\* client_ip of each inbound TCP connection
client_ip_of(t) == IF t = "c2" THEN "ip2" ELSE "ip1"

\* coordinates are kept in tenths of a position unit
Coord(x, y, z) == [x |-> x, y |-> y, z |-> z]
Issue(k, c) == [issue_type |-> k, coordinates |-> c]

OC == Issue("overheated_circuit", Coord(1200, 1500, 50))
RustA == Issue("rust", Coord(600, 800, 0))
RustB == Issue("rust", Coord(604, 800, 0))
ScanIssues == {OC, RustA, RustB}

\* ----------------------------------------------------------- pure helpers
ISSUE_LOCATIONS ==
    [k \in {"rust", "overheated_circuit", "tilted_antenna"} |->
        [robot_count |-> IF k = "overheated_circuit" THEN 2 ELSE 1]]

\* f"{issue_type}_{x}_{y}_{z}": the raw values, no rounding
issue_key(i) ==
    <<i.issue_type, i.coordinates.x, i.coordinates.y, i.coordinates.z>>

\* Python round() of a value given in tenths (ties to even)
Round(v) ==
    LET q == v \div 10
        r == v % 10
    IN  IF r < 5 THEN q
        ELSE IF r > 5 THEN q + 1
        ELSE IF q % 2 = 0 THEN q ELSE q + 1

\* the fingerprint of the specification's data model
Fingerprint(i) ==
    <<i.issue_type, Round(i.coordinates.x), Round(i.coordinates.y),
      Round(i.coordinates.z)>>

NoIssue == Issue("none", Coord(0, 0, 0))
NoKey == issue_key(NoIssue)

\* ------------------------------------------------------- Q-learning (pure)
\* floor of the square root: math.sqrt is only compared with whole numbers
RECURSIVE SqrtIter(_, _)
SqrtIter(n, r) ==
    LET s == (r + n \div r) \div 2
    IN  IF s >= r THEN r ELSE SqrtIter(n, s)

ISqrt(n) ==
    IF n = 0 THEN 0
    ELSE SqrtIter(n, IF n < 4096 * 4096 THEN 4096 ELSE n)

\* a distance measured with the z coordinates as well
calculate_distance_3d(pos1, pos2) ==
    LET dx == pos2.x - pos1.x
        dy == pos2.y - pos1.y
        dz == pos2.z - pos1.z
    IN  ISqrt(dx * dx + dy * dy + dz * dz)

calculate_distance(pos1, pos2) ==
    LET dx == pos2.x - pos1.x
        dy == pos2.y - pos1.y
    IN  ISqrt(dx * dx + dy * dy)

\* thresholds 30 and 60 position units, in tenths
get_distance_bucket(distance) ==
    IF distance < 300 THEN "near"
    ELSE IF distance < 600 THEN "medium"
    ELSE "far"

get_state(issue_type, robot_position, issue_coordinates) ==
    <<issue_type,
      get_distance_bucket(calculate_distance(robot_position,
                                             issue_coordinates))>>

\* Q values are decimal fractions n / 10^e in lowest terms (the code holds
\* them in floats; the arithmetic here is exact)
QVal(n, e) == [n |-> n, e |-> e]
QZero == QVal(0, 0)
QInt(k) == QVal(k, 0)

RECURSIVE Pow10(_)
Pow10(e) == IF e = 0 THEN 1 ELSE 10 * Pow10(e - 1)

RECURSIVE QNorm(_)
QNorm(q) ==
    IF q.n = 0 THEN QZero
    ELSE IF q.e > 0 /\ q.n % 10 = 0 THEN QNorm(QVal(q.n \div 10, q.e - 1))
    ELSE q

QAdd(a, b) ==
    LET e == IF a.e >= b.e THEN a.e ELSE b.e
    IN  QNorm(QVal(a.n * Pow10(e - a.e) + b.n * Pow10(e - b.e), e))

QNeg(a) == QVal(0 - a.n, a.e)
QSub(a, b) == QAdd(a, QNeg(b))
QMul(a, b) == QNorm(QVal(a.n * b.n, a.e + b.e))
QLess(a, b) == QSub(a, b).n < 0

ALPHA == QVal(1, 1)        \* 0.1

\* Q_table: kind is "defaultdict" for the table built at import and "dict"
\* for the object pickle.load returns; tab maps each state held to the
\* defaultdict(float) of its robots
EmptyTab == [s \in {} |-> [r \in {} |-> QZero]]
NewQTable == [kind |-> "defaultdict", tab |-> EmptyTab]
\* q_table.pkl: whole is FALSE for a file that was opened for writing and
\* not written to its end
NoFile == [exists |-> FALSE, tab |-> EmptyTab, whole |-> TRUE]

\* Q_table[state]: a missing key is created by the defaultdict and raises
\* KeyError in a dict
QMissing(Q, state) == Q.kind = "dict" /\ state \notin DOMAIN Q.tab

QTouch(Q, state) ==
    IF state \in DOMAIN Q.tab THEN Q
    ELSE [Q EXCEPT !.tab = (state :> [r \in {} |-> QZero]) @@ Q.tab]

\* Q_table[state].get(robot_id, 0.0)
QGet(Q, state, robot_id) ==
    IF state \in DOMAIN Q.tab /\ robot_id \in DOMAIN Q.tab[state]
    THEN Q.tab[state][robot_id]
    ELSE QZero

QSet(Q, state, robot_id, v) ==
    LET T == QTouch(Q, state)
    IN  [T EXCEPT !.tab = (state :> ((robot_id :> v) @@ T.tab[state]))
                              @@ T.tab]

\* lines 185-187 (the caller handles the KeyError case, see QMissing)
update_q_table_overwrite(Q, robot_id, state, reward) ==
    QSet(Q, state, robot_id, reward)

update_q_table(Q, robot_id, state, reward) ==
    LET old_q == QGet(Q, state, robot_id)
    IN  QSet(Q, state, robot_id,
             QAdd(old_q, QMul(ALPHA, QSub(reward, old_q))))

\* pickle.dump(dict(Q_table), f)
save_q_table(Q) == [exists |-> TRUE, tab |-> Q.tab, whole |-> TRUE]

\* line 110: open(Q_TABLE_FILE, 'wb') has truncated the file, and
\* pickle.dump has not returned
save_q_table_opened == [exists |-> TRUE, tab |-> EmptyTab, whole |-> FALSE]

\* load_q_table at import: the table is replaced by the unpickled object
\* when the file exists; pickle.load of a truncated file raises, which is
\* logged, and the table built at import stays
load_q_table(file) ==
    IF file.exists /\ file.whole THEN [kind |-> "dict", tab |-> file.tab]
    ELSE NewQTable

\* ------------------------------------------------------------------ state
VARIABLES
    devices,          \* dict device_id -> record, in insertion order
    detected_issues,  \* keys of the dict detected_issues
    pending_issues,   \* deque of pending entries
    active_tasks,     \* dict task_id -> record
    now,              \* time.time() in microseconds, as read for message ids
    inflight,         \* MOVEMENT_COMMANDs received by robots, not yet reported
    th,               \* per thread: position in its handler and its locals
    used,             \* frames handled and commands delivered so far
    ev,               \* the step taken last (observation only)
    Q_table,          \* the global Q_table
    q_table_file,     \* q_table.pkl in the working directory
    EPSILON,          \* the global EPSILON, in hundredths
    clock,            \* time.time() in whole seconds
    heard,            \* per registered device: when its last datagram arrived
                      \* (observation only)
    lk                \* the mutexes: owner of each, and per thread the
                      \* lock, I/O and registry operations still to make

vars == <<devices, detected_issues, pending_issues, active_tasks, now,
          inflight, th, used, ev, Q_table, q_table_file, EPSILON, clock,
          heard, lk>>

\* the variables no dispatch step touches
envvars == <<q_table_file, EPSILON, clock, heard, lk>>

Idle ==
    [pc |-> "idle", issue |-> NoIssue, key |-> NoKey, adm |-> FALSE,
     sel |-> <<>>, idx |-> 0, nsent |-> 0, mid |-> NoTask, navail |-> 0]

NoEv ==
    [op |-> "init", t |-> "none", key |-> NoKey, ok |-> FALSE, r |-> NoDev,
     via |-> "none", busy |-> FALSE, qpos |-> 0, dup |-> FALSE,
     adm |-> FALSE, enq |-> "none", fin |-> FALSE, sent |-> 0,
     marked |-> NoDev, n |-> 0, raised |-> FALSE, task |-> NoTask]

\* --------------------------------------------------------------- registry
Ids(devs) == {devs[i].device_id : i \in DOMAIN devs}

IndexOfId(devs, id) ==
    IF id \in Ids(devs)
    THEN CHOOSE i \in DOMAIN devs : devs[i].device_id = id
    ELSE 0

\* a loop that falls through to the first device when none matches
FirstMatch_or_first(devs, id, ip) ==
    LET M == {i \in DOMAIN devs : devs[i].device_id = id \/ devs[i].ip = ip}
    IN  IF M = {} THEN (IF devs = <<>> THEN 0 ELSE 1)
        ELSE CHOOSE i \in M : \A j \in M : i <= j

\* for dev_id, dev in devices.items():
\*     if dev_id == id or dev.get("ip") == ip: ...; break
FirstMatch(devs, id, ip) ==
    LET M == {i \in DOMAIN devs : devs[i].device_id = id \/ devs[i].ip = ip}
    IN  IF M = {} THEN 0 ELSE CHOOSE i \in M : \A j \in M : i <= j

\* a lookup that tests the kind alone
IsAvailable_any_robot(dev) == dev.device_type = "robot"

IsAvailable(dev) == dev.device_type = "robot" /\ dev.task_id = NoTask

AvailableRobots(devs) ==
    LET A == SelectSeq(devs, IsAvailable)
    IN  [i \in DOMAIN A |-> [robot_id |-> A[i].device_id, robot_ip |-> A[i].ip]]

Prefix(s, n) == IF Len(s) <= n THEN s ELSE SubSeq(s, 1, n)

find_available_robots(devs, count) == Prefix(AvailableRobots(devs), count)

\* lines 145-158: the available robots with the state of each
RobotsWithState(devs, issue_type, issue_coordinates) ==
    LET A == SelectSeq(devs, IsAvailable)
    IN  [i \in DOMAIN A |->
            [robot_id |-> A[i].device_id, robot_ip |-> A[i].ip,
             state |-> get_state(issue_type, A[i].position,
                                 issue_coordinates)]]

\* lines 164-180: the first required_count of them, whatever the draws and
\* the Q values; draws[i] is random.random() of the i-th iteration, in
\* hundredths.  An exploiting iteration reads Q_table[state].
smart_select_robot(devs, issue_type, issue_coordinates, required_count, draws, Q, eps) ==
    LET available_robots ==
            Prefix(RobotsWithState(devs, issue_type, issue_coordinates),
                   required_count)
        read == {available_robots[i].state :
                    i \in {j \in DOMAIN available_robots : draws[j] >= eps}}
        raised == \E st \in read : QMissing(Q, st)
    IN  [raised |-> raised,
         selected |-> IF raised THEN <<>> ELSE available_robots,
         Q |-> IF raised THEN Q
               ELSE [Q EXCEPT !.tab =
                        [st \in (DOMAIN Q.tab) \cup read |->
                            IF st \in DOMAIN Q.tab THEN Q.tab[st]
                            ELSE [r \in {} |-> QZero]]]]

\* devices[device_id] = {...}: an existing key keeps its place in the dict
Upsert(devs, rec) ==
    IF rec.device_id \in Ids(devs)
    THEN [devs EXCEPT ![IndexOfId(devs, rec.device_id)] = rec]
    ELSE Append(devs, rec)

\* a removal that empties the registry
RemoveDevices_all(devs, S) == <<>>

RemoveDevices(devs, S) ==
    SelectSeq(devs, LAMBDA d : d.device_id \notin S)

\* ---------------------------------------------------------------- queue
QueueKeys(q) == {q[i].issue_key : i \in DOMAIN q}

QueuePos(q, k) ==
    IF k \in QueueKeys(q) THEN CHOOSE i \in DOMAIN q : q[i].issue_key = k
    ELSE 0

\* a dedup loop that returns on the first queued item, whatever its key
enqueue_issue_first_item(q, i, robot_count) ==
    IF q # <<>> THEN q
    ELSE Append(q, [issue_key |-> issue_key(i), issue_type |-> i.issue_type,
                    coordinates |-> i.coordinates,
                    robot_count |-> robot_count])

enqueue_issue(q, i, robot_count) ==
    IF issue_key(i) \in QueueKeys(q) THEN q
    ELSE Append(q, [issue_key |-> issue_key(i), issue_type |-> i.issue_type,
                    coordinates |-> i.coordinates,
                    robot_count |-> robot_count])

\* ------------------------------------------------------------------ Init
\* ------------------------------------------------------------ the mutexes
\* lines 57-90: threading.Lock() objects (not reentrant)
\* (clients_lock, logs_lock and command_logs_lock are taken with no other
\* lock held, around memory operations only, and are left out)
Locks ==
    {"devices_lock", "issues_lock", "pending_lock", "Q_table_lock",
     "tasks_lock"}

\* lines 1221-1223 and the Flask server: the threads of the process
CleanupThread == "cleanup"
ApiThread == "api"
LockThreads == Threads \cup {CleanupThread, ApiThread}

Free == "free"

NoLocks ==
    [held |-> [l \in Locks |-> Free],
     prog |-> [t \in LockThreads |-> <<>>],
     doing |-> [t \in LockThreads |-> "none"]]

Init ==
    /\ devices = <<>>
    /\ detected_issues = {}
    /\ pending_issues = <<>>
    /\ active_tasks = <<>>
    /\ now = 1
    /\ inflight = {}
    /\ th = [t \in Threads |-> Idle]
    /\ used = 0
    /\ ev = NoEv
    /\ q_table_file = NoFile
    /\ Q_table = load_q_table(q_table_file)
    /\ EPSILON = 15
    /\ clock = 0
    /\ heard = <<>>
    /\ lk = NoLocks

\* ------------------------------------------------- send_movement_command
\* the device whose record the loop at the end of send_movement_command
\* (and of forward_to_device) updates
MarkedIndex(devs, robot_id, robot_ip) == FirstMatch(devs, robot_id, robot_ip)

MarkTask(devs, robot_id, robot_ip, message_id) ==
    LET m == MarkedIndex(devs, robot_id, robot_ip)
    IN  IF m = 0 THEN devs ELSE [devs EXCEPT ![m].task_id = message_id]

MarkedId(devs, robot_id, robot_ip) ==
    LET m == MarkedIndex(devs, robot_id, robot_ip)
    IN  IF m = 0 THEN NoDev ELSE devs[m].device_id

HoldsTask(devs, id) ==
    id \in Ids(devs) /\ devs[IndexOfId(devs, id)].task_id # NoTask

\* the registry after a slot was set whether or not the emission succeeded
send_movement_command_marks_first(devs, ok, robot_id, robot_ip, message_id) ==
    MarkTask(devs, robot_id, robot_ip, message_id)

\* lines 723-781: the registry after the call; the slot is set after
\* sendall returned, and every failure returns before it
send_movement_command(devs, ok, robot_id, robot_ip, message_id) ==
    IF ok THEN MarkTask(devs, robot_id, robot_ip, message_id) ELSE devs

Command(robot_id, message_id, i) ==
    [to |-> robot_id, task_id |-> message_id, issue |-> i]

\* line 718-719: timestamp = time.time(); message_id = int(timestamp * 1e6)
\* (read when the emission step starts, unless the thread read it earlier)
message_id_of(l) == IF l.mid = NoTask THEN now ELSE l.mid

MoveEv(t, via, ok, r, fin) ==
    [NoEv EXCEPT !.op = "move", !.t = t, !.via = via, !.ok = ok,
                 !.key = th[t].key, !.r = r.robot_id,
                 !.busy = HoldsTask(devices, r.robot_id),
                 !.qpos = QueuePos(pending_issues, th[t].key),
                 !.fin = fin, !.adm = th[t].adm,
                 !.sent = th[t].nsent + (IF ok THEN 1 ELSE 0),
                 !.n = th[t].navail,
                 !.task = IF ok THEN message_id_of(th[t]) ELSE NoTask,
                 !.marked = IF ok
                            THEN MarkedId(devices, r.robot_id, r.robot_ip)
                            ELSE NoDev]

\* ------------------------------------------------ handle_tcp_client: QR_SCAN
\* admission into detected_issues, then handle_issue_detection up to its
\* first emission
QrScan(t, i, draws) ==
    LET key == issue_key(i)
        dup == key \in detected_issues
        known == i.issue_type \in DOMAIN ISSUE_LOCATIONS
        robot_count == ISSUE_LOCATIONS[i.issue_type].robot_count
        sel == smart_select_robot(devices, i.issue_type, i.coordinates,
                                  robot_count, draws, Q_table, EPSILON)
        selected_robots == sel.selected
        queued == enqueue_issue(pending_issues, i, robot_count)
        raised == known /\ sel.raised
        short == known /\ ~raised /\ Len(selected_robots) < robot_count
    IN  /\ t \in TcpThreads
        /\ th[t].pc = "idle"
        /\ detected_issues' = detected_issues \cup {key}
        /\ used < MaxEvents
        /\ used' = used + 1
        /\ pending_issues' = IF short THEN queued ELSE pending_issues
        /\ Q_table' = IF known THEN sel.Q ELSE Q_table
        /\ th' = [th EXCEPT ![t] =
                    IF known /\ ~short /\ ~raised
                    THEN [pc |-> "hid_send", issue |-> i, key |-> key,
                          adm |-> ~dup, sel |-> selected_robots, idx |-> 1,
                          nsent |-> 0, mid |-> NoTask,
                          navail |-> Len(AvailableRobots(devices))]
                    ELSE Idle]
        /\ ev' = [NoEv EXCEPT !.op = "scan", !.t = t, !.key = key,
                     !.dup = dup, !.adm = ~dup,
                     !.ok = known /\ ~short /\ ~raised,
                     !.enq = IF ~short THEN "none"
                             ELSE IF queued = pending_issues THEN "skipped"
                             ELSE "appended",
                     !.n = Len(AvailableRobots(devices)),
                     !.raised = raised]
        /\ UNCHANGED <<devices, active_tasks, now, inflight, envvars>>

\* The QR_SCAN branch up to the return of smart_select_robot (line 870):
\* as QrScan, but when robots are short the thread has yet to call
\* enqueue_issue (line 874), which takes pending_lock on its own.
QrScanSelect(t, i, draws) ==
    LET key == issue_key(i)
        dup == key \in detected_issues
        known == i.issue_type \in DOMAIN ISSUE_LOCATIONS
        robot_count == ISSUE_LOCATIONS[i.issue_type].robot_count
        sel == smart_select_robot(devices, i.issue_type, i.coordinates,
                                  robot_count, draws, Q_table, EPSILON)
        selected_robots == sel.selected
        raised == known /\ sel.raised
        short == known /\ ~raised /\ Len(selected_robots) < robot_count
    IN  /\ t \in TcpThreads
        /\ th[t].pc = "idle"
        /\ detected_issues' = detected_issues \cup {key}
        /\ used < MaxEvents
        /\ used' = used + 1
        /\ Q_table' = IF known THEN sel.Q ELSE Q_table
        /\ th' = [th EXCEPT ![t] =
                    IF known /\ ~raised
                    THEN [pc |-> IF short THEN "hid_enqueue" ELSE "hid_send",
                          issue |-> i, key |-> key,
                          adm |-> ~dup, sel |-> selected_robots, idx |-> 1,
                          nsent |-> 0, mid |-> NoTask,
                          navail |-> Len(AvailableRobots(devices))]
                    ELSE Idle]
        /\ ev' = [NoEv EXCEPT !.op = "scan", !.t = t, !.key = key,
                     !.dup = dup, !.adm = ~dup,
                     !.ok = known /\ ~short /\ ~raised,
                     !.n = Len(AvailableRobots(devices)),
                     !.raised = raised]
        /\ UNCHANGED <<devices, pending_issues, active_tasks, now, inflight,
                       envvars>>

\* handle_issue_detection, line 874: enqueue_issue, then return False
HidEnqueue(t) ==
    LET l == th[t]
        queued == enqueue_issue(pending_issues, l.issue,
                                ISSUE_LOCATIONS[l.issue.issue_type].robot_count)
    IN  /\ l.pc = "hid_enqueue"
        /\ pending_issues' = queued
        /\ th' = [th EXCEPT ![t] = Idle]
        /\ ev' = [NoEv EXCEPT !.op = "enq", !.t = t, !.key = l.key,
                     !.enq = IF queued = pending_issues THEN "skipped"
                             ELSE "appended"]
        /\ UNCHANGED <<devices, detected_issues, active_tasks, now, inflight,
                       used, Q_table, envvars>>

\* send_movement_command, lines 718-719 alone: the thread reads the wall
\* clock and builds its message_id; the clock has not moved on when the
\* next reading (its own or another thread's) is made
ReadClock(t) ==
    /\ th[t].pc \in {"hid_send", "piq_send"}
    /\ th[t].mid = NoTask
    /\ th' = [th EXCEPT ![t].mid = now]
    /\ ev' = [NoEv EXCEPT !.op = "clock", !.t = t, !.task = now]
    /\ UNCHANGED <<devices, detected_issues, pending_issues, active_tasks,
                   now, inflight, used, Q_table, envvars>>

\* a QR_SCAN frame without "issue_type" (has_type = FALSE), or with the
\* issue_type k and without "coordinates": lines 326-343 store nothing;
\* line 345 tests issue_type alone, and handle_issue_detection reads the
\* missing coordinates as 0 (coordinates.get('x', 0)).  The frame carries a
\* qr_code.
QrScanMalformed(t, k, has_type, draws) ==
    LET i == Issue(k, Coord(0, 0, 0))
        key == issue_key(i)
        known == has_type /\ k \in DOMAIN ISSUE_LOCATIONS
        robot_count == ISSUE_LOCATIONS[k].robot_count
        sel == smart_select_robot(devices, k, i.coordinates, robot_count,
                                  draws, Q_table, EPSILON)
        selected_robots == sel.selected
        queued == enqueue_issue(pending_issues, i, robot_count)
        raised == known /\ sel.raised
        short == known /\ ~raised /\ Len(selected_robots) < robot_count
    IN  /\ t \in TcpThreads
        /\ th[t].pc = "idle"
        /\ used < MaxEvents
        /\ used' = used + 1
        /\ pending_issues' = IF short THEN queued ELSE pending_issues
        /\ Q_table' = IF known THEN sel.Q ELSE Q_table
        /\ th' = [th EXCEPT ![t] =
                    IF known /\ ~short /\ ~raised
                    THEN [pc |-> "hid_send", issue |-> i, key |-> key,
                          adm |-> FALSE, sel |-> selected_robots, idx |-> 1,
                          nsent |-> 0, mid |-> NoTask,
                          navail |-> Len(AvailableRobots(devices))]
                    ELSE Idle]
        /\ ev' = [NoEv EXCEPT !.op = "badscan", !.t = t, !.key = key,
                     !.ok = known /\ ~short /\ ~raised,
                     !.enq = IF ~short THEN "none"
                             ELSE IF queued = pending_issues THEN "skipped"
                             ELSE "appended",
                     !.n = Len(AvailableRobots(devices)),
                     !.raised = raised]
        /\ UNCHANGED <<devices, detected_issues, active_tasks, now, inflight,
                       envvars>>

\* handle_issue_detection, one iteration of the loop over selected_robots:
\* connect + send, mark the device, record the active task
HidSend(t, ok) ==
    LET l == th[t]
        r == l.sel[l.idx]
        last == l.idx = Len(l.sel)
        mid == message_id_of(l)
    IN  /\ l.pc = "hid_send"
        /\ ok => used < MaxEvents
        /\ devices' = send_movement_command(devices, ok, r.robot_id,
                                             r.robot_ip, mid)
        /\ active_tasks' =
             IF ok
             THEN (mid :> [robot_id |-> r.robot_id,
                             issue_type |-> l.issue.issue_type,
                             state |-> r.state,
                             assigned_at |-> clock]) @@ active_tasks
             ELSE active_tasks
        /\ inflight' = IF ok
                       THEN inflight \cup {Command(r.robot_id, mid, l.issue)}
                       ELSE inflight
        /\ now' = IF ok THEN now + 1 ELSE now
        /\ th' = [th EXCEPT ![t] =
                    IF last THEN Idle
                    ELSE [l EXCEPT !.pc = "hid_send", !.idx = l.idx + 1,
                                   !.nsent = IF ok THEN @ + 1 ELSE @,
                                   !.mid = NoTask]]
        /\ ev' = MoveEv(t, "hid", ok, r, last)
        /\ used' = IF ok THEN used + 1 ELSE used
        /\ UNCHANGED <<detected_issues, pending_issues, Q_table, envvars>>

\* ------------------------------------------------------ process_issue_queue
\* top of the while loop: peek the head, look for robots
PiqPeek(t) ==
    LET head == pending_issues[1]
        available == find_available_robots(devices, head.robot_count)
        go == pending_issues # <<>> /\ Len(available) >= head.robot_count
    IN  /\ th[t].pc = "piq_peek"
        /\ th' = [th EXCEPT ![t] =
                    IF go
                    THEN [pc |-> "piq_send",
                          issue |-> Issue(head.issue_type, head.coordinates),
                          key |-> head.issue_key, adm |-> FALSE,
                          sel |-> available, idx |-> 1, nsent |-> 0,
                          mid |-> NoTask,
                          navail |-> Len(AvailableRobots(devices))]
                    ELSE Idle]
        /\ ev' = [NoEv EXCEPT !.op = "peek", !.t = t, !.ok = go,
                     !.key = IF pending_issues = <<>> THEN NoKey
                             ELSE head.issue_key,
                     !.n = Len(AvailableRobots(devices))]
        /\ UNCHANGED <<devices, detected_issues, pending_issues, active_tasks,
                       now, inflight, used, Q_table, envvars>>

\* lines 832-836: dequeue the head if it is still the issue dispatched
\* a head comparison that never matches
Dequeue_never(q, key) == q

Dequeue(q, key) ==
    IF q # <<>> /\ q[1].issue_key = key THEN Tail(q) ELSE q

\* one iteration of the loop over available robots, and after the last
\* one the dequeue; a failed emission leaves the function
PiqSend(t, ok) ==
    LET l == th[t]
        r == l.sel[l.idx]
        last == l.idx = Len(l.sel)
        mid == message_id_of(l)
    IN  /\ l.pc = "piq_send"
        /\ ok => used < MaxEvents
        /\ devices' = send_movement_command(devices, ok, r.robot_id,
                                             r.robot_ip, mid)
        /\ inflight' = IF ok
                       THEN inflight \cup {Command(r.robot_id, mid, l.issue)}
                       ELSE inflight
        /\ now' = IF ok THEN now + 1 ELSE now
        /\ pending_issues' = IF ok /\ last
                             THEN Dequeue(pending_issues, l.key)
                             ELSE pending_issues
        /\ th' = [th EXCEPT ![t] =
                    IF ~ok THEN Idle
                    ELSE IF last THEN [Idle EXCEPT !.pc = "piq_peek"]
                    ELSE [l EXCEPT !.pc = "piq_send", !.idx = l.idx + 1,
                                   !.nsent = @ + 1, !.mid = NoTask]]
        /\ ev' = MoveEv(t, "piq", ok, r, last \/ ~ok)
        /\ used' = IF ok THEN used + 1 ELSE used
        /\ UNCHANGED <<detected_issues, active_tasks, Q_table, envvars>>

\* the last datagram of each registered device (kept for observation)
Restrict(h, S) == [x \in DOMAIN h \cap S |-> h[x]]

Hear(h, registered, d) ==
    IF d \in registered
    THEN [x \in (DOMAIN h \cap registered) \cup {d} |->
             IF x = d THEN clock ELSE h[x]]
    ELSE Restrict(h, registered)

\* ------------------------------------------- udp_listener: CONNECTION_REQUEST
ConnectionRequest(d, ackok) ==
    LET rec == [device_id |-> d, ip |-> sender_ip_of(d),
                status |-> IF ackok THEN "CONNECTED" ELSE "ACK_FAIL",
                position |-> position_of(d),
                device_type |-> device_type_of(d), updated_at |-> clock,
                task_id |-> NoTask]
    IN  /\ th[UdpThread].pc = "idle"
        /\ used < MaxEvents
        /\ used' = used + 1
        /\ devices' = Upsert(devices, rec)
        /\ th' = [th EXCEPT ![UdpThread] =
                    IF rec.device_type = "robot"
                    THEN [Idle EXCEPT !.pc = "piq_peek"]
                    ELSE Idle]
        /\ ev' = [NoEv EXCEPT !.op = "reg", !.t = UdpThread, !.r = d,
                     !.ok = ackok, !.busy = HoldsTask(devices, d)]
        /\ heard' = Hear(heard, Ids(devices'), d)
        /\ UNCHANGED <<detected_issues, pending_issues, active_tasks, now,
                       inflight, Q_table, q_table_file, EPSILON, clock, lk>>

\* ------------------------------------------ handle_tcp_client: TASK_COMPLETED
\* the robot m.to reports the command m it received, on its connection t
\* a release that sets the status and leaves the slot
Release_keeps_slot(devs, i) ==
    [devs EXCEPT ![i].status = "READY", ![i].updated_at = clock]

Release(devs, i) ==
    [devs EXCEPT ![i].task_id = NoTask, ![i].status = "READY",
                 ![i].updated_at = clock]

RemoveTask(tasks, task_id) ==
    [k \in DOMAIN tasks \ {task_id} |-> tasks[k]]

\* status: the "status" of the frame (only printed); save: the draw of
\* line 192 is below 0.1
TaskCompleted(t, m, status, save) ==
    LET sender_id == m.to
        task_id == m.task_id
        f == FirstMatch(devices, sender_id, client_ip_of(t))
        freed == f # 0
        known == freed /\ task_id \in DOMAIN active_tasks
        task_info == active_tasks[task_id]
        completion_time == clock - task_info.assigned_at
        reward == QInt(0 - completion_time)
        raised == known /\ QMissing(Q_table, task_info.state)
        updated == known /\ ~raised
        through == freed /\ ~raised
    IN  /\ t \in TcpThreads
        /\ th[t].pc = "idle"
        /\ m \in inflight
        /\ sender_ip_of(m.to) = client_ip_of(t)
        /\ inflight' = inflight \ {m}
        /\ devices' = IF freed THEN Release(devices, f) ELSE devices
        /\ Q_table' = IF updated
                      THEN update_q_table(Q_table, task_info.robot_id,
                                          task_info.state, reward)
                      ELSE Q_table
        /\ q_table_file' = IF updated /\ save THEN save_q_table(Q_table')
                           ELSE q_table_file
        /\ active_tasks' = IF updated THEN RemoveTask(active_tasks, task_id)
                           ELSE active_tasks
        /\ detected_issues' = IF through
                              THEN detected_issues \ {issue_key(m.issue)}
                              ELSE detected_issues
        /\ th' = [th EXCEPT ![t] =
                    IF through THEN [Idle EXCEPT !.pc = "piq_peek"]
                    ELSE Idle]
        /\ ev' = [NoEv EXCEPT !.op = "done", !.t = t, !.r = sender_id,
                     !.key = issue_key(m.issue), !.ok = freed,
                     !.busy = HoldsTask(devices, sender_id),
                     !.marked = IF freed THEN devices[f].device_id ELSE NoDev,
                     !.task = task_id, !.raised = raised]
        /\ UNCHANGED <<pending_issues, now, used, EPSILON, clock, heard, lk>>

\* ------------------------------------------- udp_listener: POSITION_UPDATE
PositionUpdate(d, p) ==
    LET byip == {i \in DOMAIN devices : devices[i].ip = sender_ip_of(d)}
        k == IF d \in Ids(devices) THEN IndexOfId(devices, d)
             ELSE IF byip = {} THEN 0
             ELSE CHOOSE i \in byip : \A j \in byip : i <= j
    IN  /\ th[UdpThread].pc = "idle"
        /\ devices' = IF k = 0 THEN devices
                      ELSE [devices EXCEPT ![k].position = p,
                                           ![k].updated_at = clock]
        /\ heard' = Hear(heard, Ids(devices'), d)
        /\ ev' = [NoEv EXCEPT !.op = "pos", !.t = UdpThread, !.r = d,
                     !.ok = k # 0,
                     !.marked = IF k = 0 THEN NoDev
                                ELSE devices[k].device_id]
        /\ UNCHANGED <<detected_issues, pending_issues, active_tasks, now,
                       inflight, th, used, Q_table, q_table_file, EPSILON,
                       clock, lk>>

\* ------------------------------------------------- udp_listener: HEARTBEAT
\* the datagram carries no device_id: the first device registered from the
\* sender's address is refreshed
Heartbeat(d) ==
    LET byip == {i \in DOMAIN devices : devices[i].ip = sender_ip_of(d)}
        k == IF byip = {} THEN 0
             ELSE CHOOSE i \in byip : \A j \in byip : i <= j
    IN  /\ th[UdpThread].pc = "idle"
        /\ devices' = IF k = 0 THEN devices
                      ELSE [devices EXCEPT ![k].updated_at = clock]
        /\ heard' = Hear(heard, Ids(devices'), d)
        /\ ev' = [NoEv EXCEPT !.op = "hb", !.t = UdpThread, !.r = d,
                     !.ok = k # 0,
                     !.marked = IF k = 0 THEN NoDev
                                ELSE devices[k].device_id]
        /\ UNCHANGED <<detected_issues, pending_issues, active_tasks, now,
                       inflight, th, used, Q_table, q_table_file, EPSILON,
                       clock, lk>>

\* ------------------------------------------------------------ passing time
Tick(k) ==
    /\ clock + k <= MaxTicks * k
    /\ clock' = clock + k
    /\ ev' = [NoEv EXCEPT !.op = "tick", !.n = k]
    /\ UNCHANGED <<devices, detected_issues, pending_issues, active_tasks,
                   now, inflight, th, used, Q_table, q_table_file, EPSILON,
                   heard, lk>>

\* ------------------------------------------------------ cleanup_stale_devices
\* S: the devices whose updated_at is more than 60 s old at this sweep
Sweep(S) ==
    /\ S # {}
    /\ S \subseteq Ids(devices)
    /\ devices' = RemoveDevices(devices, S)
    /\ ev' = [NoEv EXCEPT !.op = "sweep", !.n = Cardinality(S)]
    /\ heard' = Restrict(heard, Ids(devices'))
    /\ UNCHANGED <<detected_issues, pending_issues, active_tasks, now,
                   inflight, th, used, Q_table, q_table_file, EPSILON,
                   clock, lk>>

\* lines 908-917: the devices seen more than 60 s ago are removed
StaleDevices(devs, current_time) ==
    {devs[i].device_id :
        i \in {j \in DOMAIN devs : current_time - devs[j].updated_at > 60}}

cleanup_stale_devices == Sweep(StaleDevices(devices, clock))

\* ------------------------------- handle_tcp_client: finally (stream closed)
TcpClose(t) ==
    LET gone == {devices[i].device_id :
                    i \in {j \in DOMAIN devices :
                              devices[j].ip = client_ip_of(t)}}
    IN  /\ t \in TcpThreads
        /\ th[t].pc = "idle"
        /\ gone # {}
        /\ devices' = RemoveDevices(devices, gone)
        /\ ev' = [NoEv EXCEPT !.op = "close", !.t = t,
                     !.n = Cardinality(gone)]
        /\ heard' = Restrict(heard, Ids(devices'))
        /\ UNCHANGED <<detected_issues, pending_issues, active_tasks, now,
                       inflight, th, used, Q_table, q_table_file, EPSILON,
                       clock, lk>>

\* ------------------------------------------- the process is started again
\* module import: empty globals, then load_q_table(); the file, the robots
\* and the wall clock are outside the process
Restart ==
    /\ \A t \in Threads : th[t].pc = "idle"
    /\ devices' = <<>>
    /\ detected_issues' = {}
    /\ pending_issues' = <<>>
    /\ active_tasks' = <<>>
    /\ Q_table' = load_q_table(q_table_file)
    /\ ev' = [NoEv EXCEPT !.op = "restart"]
    /\ heard' = <<>>
    /\ UNCHANGED <<now, inflight, th, used, q_table_file, EPSILON, clock, lk>>

\* the process stops inside save_q_table, called by the update of the
\* completion m, between open() and the end of pickle.dump, and is started
\* again
StopInSave(t, m) ==
    LET f == FirstMatch(devices, m.to, client_ip_of(t))
    IN  /\ t \in TcpThreads
        /\ \A u \in Threads : th[u].pc = "idle"
        /\ m \in inflight
        /\ sender_ip_of(m.to) = client_ip_of(t)
        /\ f # 0
        /\ m.task_id \in DOMAIN active_tasks
        /\ ~QMissing(Q_table, active_tasks[m.task_id].state)
        /\ inflight' = inflight \ {m}
        /\ q_table_file' = save_q_table_opened
        /\ devices' = <<>>
        /\ detected_issues' = {}
        /\ pending_issues' = <<>>
        /\ active_tasks' = <<>>
        /\ Q_table' = load_q_table(q_table_file')
        /\ heard' = <<>>
        /\ ev' = [NoEv EXCEPT !.op = "stop", !.t = t, !.r = m.to]
        /\ UNCHANGED <<now, th, used, EPSILON, clock, lk>>

\* ------------------------------------------------- the handlers, lock by lock
\* What each handler does with the mutexes, in program order: "acq" and
\* "rel" of a mutex (the with statements), "io" (a socket connect and send,
\* or the write of q_table.pkl), "registry" (a loop over devices.items(),
\* or a write or del of devices[...]), and "end" (the handler returns).
Acq(l) == [k |-> "acq", l |-> l]
Rel(l) == [k |-> "rel", l |-> l]
Io(what) == [k |-> "io", l |-> what]
Registry == [k |-> "registry", l |-> "devices"]
End == [k |-> "end", l |-> "none"]

\* lines 106-114
save_q_table_ops == <<Acq("Q_table_lock"), Io("file"), Rel("Q_table_lock")>>

\* lines 182-193; save: the draw of line 192 is below 0.1
update_q_table_ops(save) ==
    <<Acq("Q_table_lock"), Rel("Q_table_lock")>>
       \o (IF save THEN save_q_table_ops ELSE <<>>)

\* lines 145-175: the loop over devices, then an exploiting read of Q_table
smart_select_robot_ops ==
    <<Registry, Acq("Q_table_lock"), Rel("Q_table_lock")>>

\* lines 723-768: connect and sendall, then the loop that sets task_id
send_movement_command_ops == <<Io("socket"), Registry>>

\* lines 802-839: peek, find_available_robots, one emission, pop, peek
process_issue_queue_ops ==
    <<Acq("pending_lock"), Rel("pending_lock"), Registry>>
       \o send_movement_command_ops
       \o <<Acq("pending_lock"), Rel("pending_lock"),
            Acq("pending_lock"), Rel("pending_lock")>>

\* lines 319-363 and 842-901: store, select, emit, record the task
QrScanOps ==
    <<Acq("issues_lock"), Rel("issues_lock")>>
       \o smart_select_robot_ops
       \o send_movement_command_ops
       \o <<Acq("tasks_lock"), Rel("tasks_lock"), End>>

\* a TASK_COMPLETED branch that takes Q_table_lock before tasks_lock
TaskCompletedOps_reversed(save) ==
    <<Registry, Acq("Q_table_lock"), Acq("tasks_lock"), Rel("tasks_lock"),
      Rel("Q_table_lock"), Acq("issues_lock"), Rel("issues_lock")>>
       \o process_issue_queue_ops \o <<End>>

\* lines 364-404: release the device, update Q under tasks_lock, remove
\* the issue, drain the queue
TaskCompletedOps(save) ==
    <<Registry, Acq("tasks_lock")>>
       \o update_q_table_ops(save)
       \o <<Rel("tasks_lock"), Acq("issues_lock"), Rel("issues_lock")>>
       \o process_issue_queue_ops \o <<End>>

\* lines 457-463: the loop over devices and the del, after the finally
TcpCloseOps == <<Registry, End>>

\* lines 523-559: the ACK, devices[device_id] = {...}, the drain
ConnectionRequestOps ==
    <<Io("socket"), Registry>> \o process_issue_queue_ops \o <<End>>

\* lines 488-509
PositionUpdateOps ==
    <<Acq("devices_lock"), Registry, Rel("devices_lock"), End>>

\* lines 561-570
HeartbeatOps == <<Registry, End>>

\* lines 908-918
CleanupOps == <<Registry, End>>

\* lines 1014-1027
ApiDevicesPositionsOps ==
    <<Acq("devices_lock"), Registry, Rel("devices_lock"), End>>

\* the handlers each thread runs
HandlersOf(t) ==
    IF t = UdpThread
    THEN {ConnectionRequestOps, PositionUpdateOps, HeartbeatOps}
    ELSE IF t = CleanupThread THEN {CleanupOps}
    ELSE IF t = ApiThread THEN {ApiDevicesPositionsOps}
    ELSE {QrScanOps, TaskCompletedOps(TRUE), TaskCompletedOps(FALSE),
          TcpCloseOps}

HeldBy(t) == {l \in Locks : lk.held[l] = t}

\* a thread takes up a handler
LockStart(t, ops) ==
    /\ lk.prog[t] = <<>>
    /\ ops \in HandlersOf(t)
    /\ lk' = [lk EXCEPT !.prog[t] = ops]
    /\ UNCHANGED <<devices, detected_issues, pending_issues, active_tasks,
                   now, inflight, th, used, ev, Q_table, q_table_file,
                   EPSILON, clock, heard>>

\* a thread makes the next operation of its handler; an "acq" waits until
\* the mutex is free
LockStep(t) ==
    LET op == Head(lk.prog[t])
    IN  /\ lk.prog[t] # <<>>
        /\ op.k = "acq" => lk.held[op.l] = Free
        /\ lk' = [held |-> IF op.k = "acq"
                           THEN [lk.held EXCEPT ![op.l] = t]
                           ELSE IF op.k = "rel"
                           THEN [lk.held EXCEPT ![op.l] = Free]
                           ELSE lk.held,
                  prog |-> [lk.prog EXCEPT ![t] = Tail(@)],
                  doing |-> [lk.doing EXCEPT ![t] =
                                IF op.k \in {"io", "registry"} THEN op.k
                                ELSE "none"]]
        /\ UNCHANGED <<devices, detected_issues, pending_issues, active_tasks,
                       now, inflight, th, used, ev, Q_table, q_table_file,
                       EPSILON, clock, heard>>

\* ------------------------------------------------------------------- Next
\* the QR_SCAN frames each connection carries: OC and RustA on c1, RustB
\* on c2
ScansOf(t) == IF t = "c2" THEN {RustB} ELSE {OC, RustA}

Next ==
    \/ \E t \in TcpThreads : \E i \in ScansOf(t) :
          QrScan(t, i, [k \in 1..2 |-> ExploreDraw])
    \/ \E t \in Threads, ok \in BOOLEAN : HidSend(t, ok)
    \/ \E t \in Threads : PiqPeek(t)
    \/ \E t \in Threads, ok \in BOOLEAN : PiqSend(t, ok)
    \/ \E d \in DeviceIds, ackok \in AckOutcomes : ConnectionRequest(d, ackok)
    \/ \E t \in TcpThreads, m \in inflight, status \in Statuses :
          TaskCompleted(t, m, status, FALSE)
    \/ \E S \in SUBSET DeviceIds : Sweep(S)
    \/ \E t \in TcpThreads : TcpClose(t)

Spec == Init /\ [][Next]_vars

\* ===================================================================
\* SpecQ: learning and persistence.  The same handlers, run one at a time,
\* with what Spec holds fixed: the wall clock advances while a task runs,
\* R2 reports a position, both outcomes of the draws of random.random()
\* are explored, the Q-table is saved, and the process is started again
\* once a file exists, or after it stopped in a save.  EPSILON is any of
\* 0, 0.15 and 1.  Every emission succeeds and a device registers once per
\* run of the process.
\* ===================================================================
\* seconds between two readings of the wall clock
CompletionStep == 5

\* the position R2 reports: 50 units from RustA
ReportedPosition == Coord(300, 400, 0)

Alone(t) == \A u \in Threads \ {t} : th[u].pc = "idle"
Quiet == \A u \in Threads : th[u].pc = "idle"

InitQ ==
    /\ devices = <<>>
    /\ detected_issues = {}
    /\ pending_issues = <<>>
    /\ active_tasks = <<>>
    /\ now = 1
    /\ inflight = {}
    /\ th = [t \in Threads |-> Idle]
    /\ used = 0
    /\ ev = NoEv
    /\ q_table_file = NoFile
    /\ Q_table = load_q_table(q_table_file)
    /\ EPSILON \in {0, 15, 100}
    /\ clock = 0
    /\ heard = <<>>
    /\ lk = NoLocks

NextQ ==
    \/ \E i \in {RustA, OC}, u \in RandomDraws :
          Quiet /\ QrScan("c1", i, [k \in 1..2 |-> u])
    \/ \E t \in Threads : Alone(t) /\ HidSend(t, TRUE)
    \/ \E t \in Threads : Alone(t) /\ PiqPeek(t)
    \/ \E t \in Threads : Alone(t) /\ PiqSend(t, TRUE)
    \/ \E d \in Robots, ackok \in AckOutcomes :
          Quiet /\ d \notin Ids(devices) /\ ConnectionRequest(d, ackok)
    \/ \E t \in TcpThreads, m \in inflight, status \in Statuses,
          save \in BOOLEAN : Quiet /\ TaskCompleted(t, m, status, save)
    \/ Quiet /\ PositionUpdate("R2", ReportedPosition)
    \/ Quiet /\ inflight # {} /\ Tick(CompletionStep)
    \/ q_table_file.exists /\ Restart
    \/ \E t \in TcpThreads, m \in inflight : StopInSave(t, m)

SpecQ == InitQ /\ [][NextQ]_vars

\* ===================================================================
\* SpecPos: positions.  The handlers run one at a time and R1 reports
\* positions on either side of both distance thresholds; an emission may
\* fail.
\* ===================================================================
\* distances to RustA (60, 80): 50.0, 30.0, 29.9 (with z = 90), 60.0, 59.9
Positions ==
    {Coord(300, 400, 0), Coord(300, 800, 0), Coord(301, 800, 900),
     Coord(0, 800, 0), Coord(1, 800, 0)}

NextPos ==
    \/ \E u \in RandomDraws : Quiet /\ QrScan("c1", RustA, [k \in 1..2 |-> u])
    \/ \E t \in Threads, ok \in BOOLEAN : Alone(t) /\ HidSend(t, ok)
    \/ \E t \in Threads : Alone(t) /\ PiqPeek(t)
    \/ \E t \in Threads : Alone(t) /\ PiqSend(t, TRUE)
    \/ \E d \in DeviceIds, ackok \in AckOutcomes :
          Quiet /\ d \notin Ids(devices) /\ ConnectionRequest(d, ackok)
    \/ \E t \in TcpThreads, m \in inflight, status \in Statuses :
          Quiet /\ TaskCompleted(t, m, status, FALSE)
    \/ \E p \in Positions : Quiet /\ PositionUpdate("R1", p)

SpecPos == Init /\ [][NextPos]_vars

\* ===================================================================
\* SpecEvict: eviction.  The handlers run one at a time; devices leave the
\* registry, swept or with the close of a stream from their address,
\* while their commands are still out, and their completions arrive
\* afterwards.
\* ===================================================================
NextEvict ==
    \/ \E i \in ScanIssues, u \in RandomDraws :
          Quiet /\ QrScan("c1", i, [k \in 1..2 |-> u])
    \/ \E t \in Threads : Alone(t) /\ HidSend(t, TRUE)
    \/ \E t \in Threads : Alone(t) /\ PiqPeek(t)
    \/ \E t \in Threads : Alone(t) /\ PiqSend(t, TRUE)
    \/ \E d \in DeviceIds, ackok \in AckOutcomes :
          Quiet /\ d \notin Ids(devices) /\ ConnectionRequest(d, ackok)
    \/ \E t \in TcpThreads, m \in inflight, status \in Statuses :
          Quiet /\ TaskCompleted(t, m, status, FALSE)
    \/ \E S \in SUBSET DeviceIds : Quiet /\ Sweep(S)
    \/ \E t \in TcpThreads : Quiet /\ TcpClose(t)

SpecEvict == Init /\ [][NextEvict]_vars

\* ===================================================================
\* SpecLive: liveness of the registry.  The wall clock advances in steps
\* of 30 and 31 s; devices register, send heartbeats and position
\* updates, and cleanup_stale_devices runs against the clock.
\* ===================================================================
TickSteps == {30, 31}

NextLive ==
    \/ \E d \in DeviceIds, ackok \in AckOutcomes :
          d \notin Ids(devices) /\ ConnectionRequest(d, ackok)
    \/ PiqPeek(UdpThread)
    \/ \E d \in DeviceIds : Heartbeat(d)
    \/ \E d \in DeviceIds : PositionUpdate(d, ReportedPosition)
    \/ \E k \in TickSteps : Tick(k)
    \/ cleanup_stale_devices

SpecLive == Init /\ [][NextLive]_vars

\* ===================================================================
\* SpecFrames: frames and emissions that go wrong.  The handlers run one
\* at a time; QR_SCAN frames arrive whole, without issue_type or without
\* coordinates, and every emission may fail.
\* ===================================================================
NextFrames ==
    \/ \E i \in {RustA, OC}, u \in RandomDraws :
          Quiet /\ QrScan("c1", i, [k \in 1..2 |-> u])
    \/ \E k \in {"rust", "overheated_circuit"}, has_type \in BOOLEAN :
          Quiet /\ QrScanMalformed("c1", k, has_type,
                                   [j \in 1..2 |-> ExploreDraw])
    \/ \E t \in Threads, ok \in BOOLEAN : Alone(t) /\ HidSend(t, ok)
    \/ \E t \in Threads : Alone(t) /\ PiqPeek(t)
    \/ \E t \in Threads, ok \in BOOLEAN : Alone(t) /\ PiqSend(t, ok)
    \/ \E d \in DeviceIds, ackok \in AckOutcomes :
          Quiet /\ d \notin Ids(devices) /\ ConnectionRequest(d, ackok)
    \/ \E t \in TcpThreads, m \in inflight, status \in Statuses :
          Quiet /\ TaskCompleted(t, m, status, FALSE)

SpecFrames == Init /\ [][NextFrames]_vars

\* ===================================================================
\* SpecStale: agents that fall silent while they hold tasks.  Issues are
\* scanned and dispatched one handler at a time, the wall clock advances,
\* R2 sends heartbeats, and cleanup_stale_devices runs against the clock.
\* ===================================================================
NextStale ==
    \/ Quiet /\ QrScan("c1", RustA, [k \in 1..2 |-> ExploreDraw])
    \/ \E t \in Threads : Alone(t) /\ HidSend(t, TRUE)
    \/ \E t \in Threads : Alone(t) /\ PiqPeek(t)
    \/ \E t \in Threads : Alone(t) /\ PiqSend(t, TRUE)
    \/ \E d \in Robots, ackok \in AckOutcomes :
          Quiet /\ d \notin Ids(devices) /\ ConnectionRequest(d, ackok)
    \/ \E t \in TcpThreads, m \in inflight :
          Quiet /\ TaskCompleted(t, m, "completed", FALSE)
    \/ Quiet /\ Heartbeat("R2")
    \/ \E k \in TickSteps : Quiet /\ Tick(k)
    \/ Quiet /\ cleanup_stale_devices

SpecStale == Init /\ [][NextStale]_vars

\* ===================================================================
\* SpecIds: message ids.  Two connections are served by two threads, as
\* in Spec, and a thread may read the wall clock for its message_id some
\* time before its command goes out.  Robots only, no evictions.
\* ===================================================================
NextIds ==
    \/ \E t \in TcpThreads, i \in {RustA, RustB} :
          QrScan(t, i, [k \in 1..2 |-> ExploreDraw])
    \/ \E t \in Threads : ReadClock(t)
    \/ \E t \in Threads : HidSend(t, TRUE)
    \/ \E t \in Threads : PiqPeek(t)
    \/ \E t \in Threads : PiqSend(t, TRUE)
    \/ \E d \in Robots, ackok \in AckOutcomes :
          d \notin Ids(devices) /\ ConnectionRequest(d, ackok)
    \/ \E t \in TcpThreads, m \in inflight :
          TaskCompleted(t, m, "completed", FALSE)

SpecIds == Init /\ [][NextIds]_vars

\* ===================================================================
\* SpecLocks: the mutexes.  The UDP listener, two connection threads, the
\* cleanup thread and an API request run their handlers one lock, I/O or
\* registry operation at a time, in any interleaving.
\* ===================================================================
NextLocks ==
    \/ \E t \in LockThreads : \E ops \in HandlersOf(t) : LockStart(t, ops)
    \/ \E t \in LockThreads : LockStep(t)

SpecLocks == Init /\ [][NextLocks]_vars

\* ===================================================================
\* SpecFair: progress of the pending queue.  Two connection threads and
\* the UDP listener run concurrently; robots register once and stay; every
\* emission succeeds.  A handler that has started goes on to its end, and
\* every command received by a robot is reported completed: each thread's
\* steps and each completion are weakly fair.  Frames arrive or not.
\* ===================================================================
ThreadStep(t) ==
    HidEnqueue(t) \/ HidSend(t, TRUE) \/ PiqPeek(t) \/ PiqSend(t, TRUE)

Completion(t) ==
    \E m \in inflight : TaskCompleted(t, m, "completed", FALSE)

NextFair ==
    \/ \E t \in TcpThreads, i \in {RustA, RustB} :
          QrScanSelect(t, i, [k \in 1..2 |-> ExploreDraw])
    \/ \E t \in Threads : HidEnqueue(t)
    \/ \E t \in Threads : HidSend(t, TRUE)
    \/ \E t \in Threads : PiqPeek(t)
    \/ \E t \in Threads : PiqSend(t, TRUE)
    \/ \E d \in Robots, ackok \in AckOutcomes :
          d \notin Ids(devices) /\ ConnectionRequest(d, ackok)
    \/ \E t \in TcpThreads : Completion(t)

SpecFair ==
    /\ Init
    /\ [][NextFair]_vars
    /\ \A t \in Threads : WF_vars(ThreadStep(t))
    /\ \A t \in TcpThreads : WF_vars(Completion(t))

\* ===================================================================
\* SpecRejoin: devices that announce themselves again.  The handlers run
\* one at a time; a CONNECTION_REQUEST may come from a device that is
\* already registered, idle or busy.
\* ===================================================================
NextRejoin ==
    \/ \E i \in {RustA, OC} :
          Quiet /\ QrScan("c1", i, [k \in 1..2 |-> ExploreDraw])
    \/ \E t \in Threads : Alone(t) /\ HidSend(t, TRUE)
    \/ \E t \in Threads : Alone(t) /\ PiqPeek(t)
    \/ \E t \in Threads : Alone(t) /\ PiqSend(t, TRUE)
    \/ \E d \in Robots, ackok \in AckOutcomes :
          Quiet /\ ConnectionRequest(d, ackok)
    \/ \E t \in TcpThreads, m \in inflight :
          Quiet /\ TaskCompleted(t, m, "completed", FALSE)

SpecRejoin == Init /\ [][NextRejoin]_vars

TypeOK ==
    /\ now \in 1..(MaxEvents + 1)
    /\ clock \in Nat
    /\ Q_table.kind \in {"defaultdict", "dict"}
    /\ EPSILON \in {0, 15, 100}
    /\ Len(pending_issues) <= Cardinality(ScanIssues) + Cardinality(DOMAIN ISSUE_LOCATIONS)
    /\ \A t \in Threads : th[t].pc \in
          {"idle", "hid_send", "hid_enqueue", "piq_peek", "piq_send"}

\* ===================================================================
\* Properties
\* ===================================================================
required_count(key) ==
    IF key[1] \in DOMAIN ISSUE_LOCATIONS
    THEN ISSUE_LOCATIONS[key[1]].robot_count
    ELSE 0

NumAvailable(devs) == Cardinality({i \in DOMAIN devs : IsAvailable(devs[i])})

PendingEntry(i) ==
    [issue_key |-> issue_key(i), issue_type |-> i.issue_type,
     coordinates |-> i.coordinates,
     robot_count |-> required_count(issue_key(i))]

FingerprintOfKey(k) == <<k[1], Round(k[2]), Round(k[3]), Round(k[4])>>

HasTaskFor(tasks, id) == \E k \in DOMAIN tasks : tasks[k].robot_id = id

RobotIds(devs) ==
    {devs[i].device_id : i \in {j \in DOMAIN devs :
                                    devs[j].device_type = "robot"}}

\* C1: in every reachable state a registered agent's assignment slot is
\* non-empty if and only if the active-task table holds a task of that agent.
C1_AssignedIffTask ==
    \A id \in RobotIds(devices) :
        HoldsTask(devices, id) <=> HasTaskFor(active_tasks, id)

\* C2: when an admitted issue needing one agent is dispatched after a
\* selection that saw two idle agents, no MOVEMENT_COMMAND goes to an agent
\* that already holds an assignment (selection and marking are atomic with
\* respect to any other selection).
C2_NoCommandToAssigned ==
    (/\ ev.op = "move" /\ ev.via = "hid" /\ ev.ok /\ ev.adm
     /\ required_count(ev.key) = 1 /\ ev.n >= 2)
        => ~ev.busy

\* C3: a frame rejected by the admission filter (its key is already in the
\* issue store) never reaches the selection: no thread dispatches it and no
\* MOVEMENT_COMMAND is emitted for it.
C3_RejectedNotDispatched ==
    /\ \A t \in Threads : th[t].pc = "hid_send" => th[t].adm
    /\ (ev.op = "move" /\ ev.via = "hid") => ev.adm

\* C4: a QR_SCAN whose key is already in the issue store leaves the issue
\* store and the pending queue exactly as they were.
C4_DuplicateScanNoEffect ==
    [][\A t \in TcpThreads, i \in ScanIssues :
          ((\E dr \in DrawSeqs : QrScan(t, i, dr))
              /\ issue_key(i) \in detected_issues)
             => (/\ detected_issues' = detected_issues
                 /\ pending_issues' = pending_issues)]_vars

\* C5: the key under which an issue is stored is its fingerprint
\* (kind, round(x), round(y), round(z)), so the issue store never holds two
\* issues with equal kind and equal rounded coordinates.
C5_OneIssuePerFingerprint ==
    \A k1, k2 \in detected_issues :
        FingerprintOfKey(k1) = FingerprintOfKey(k2) => k1 = k2

\* C6: a drain that cannot fully staff the head stops, and no agent is
\* dispatched to an issue that sits in the pending queue behind another
\* entry.
C6_HeadOfLine ==
    /\ (ev.op = "peek" /\ ~ev.ok) => th[ev.t].pc = "idle"
    /\ (ev.op = "move" /\ ev.ok) => ev.qpos <= 1

\* C7: at no time are two threads both between the peek and the dequeue of
\* process_issue_queue.
C7_SingleFlight ==
    Cardinality({t \in Threads : th[t].pc = "piq_send"}) <= 1

\* C8 (as claimed): when a newly admitted issue finds fewer than
\* required_count available agents, it is appended to the pending queue and
\* the handler returns: no agent's record changes, no MOVEMENT_COMMAND is
\* emitted.
ShortAdmission(t, i) ==
    /\ \E dr \in DrawSeqs : QrScan(t, i, dr)
    /\ issue_key(i) \notin detected_issues
    /\ NumAvailable(devices) < required_count(issue_key(i))

NothingDispatched(t) ==
    /\ devices' = devices
    /\ inflight' = inflight
    /\ active_tasks' = active_tasks
    /\ th'[t].pc = "idle"

NumRobots(devs) == Cardinality(RobotIds(devs))

\* C10 (as claimed): an issue needing two agents that is admitted with at
\* most one agent registered is enqueued; the drain started by the
\* registration of a second agent dispatches it: the drain goes on to emit,
\* both emissions reach their agents and the issue leaves the queue.
C10_EnqueuedWithOneAgent ==
    (ev.op = "scan" /\ ev.adm /\ required_count(ev.key) = 2
        /\ NumRobots(devices) <= 1)
       => (ev.key \in QueueKeys(pending_issues) /\ th[ev.t].pc = "idle")

Released(devs, id) ==
    /\ devs[IndexOfId(devs, id)].task_id = NoTask
    /\ devs[IndexOfId(devs, id)].status = "READY"

\* C11: after the TASK_COMPLETED of a registered agent for an issue that was
\* dispatched to it is processed, the issue is no longer in the issue
\* store, the agent's assignment slot is empty with status READY, and the
\* task is not in the active-task table.
C11_CompletionReleases ==
    (ev.op = "done" /\ ev.r \in Ids(devices))
       => (/\ ev.key \notin detected_issues
           /\ Released(devices, ev.r)
           /\ ev.task \notin DOMAIN active_tasks)

\* C12: a TASK_COMPLETED from a registered agent whose task_id is not in
\* the active-task table releases that agent, leaves the Q-table and the
\* active-task table unchanged, and raises nothing in the handler.
C12_UnknownTaskStillReleases ==
    [][\A t \in TcpThreads, m \in inflight, status \in Statuses,
          save \in BOOLEAN :
          (/\ TaskCompleted(t, m, status, save)
           /\ m.to \in Ids(devices)
           /\ m.task_id \notin DOMAIN active_tasks)
             => (/\ m.to \in Ids(devices')
                 /\ Released(devices', m.to)
                 /\ Q_table' = Q_table
                 /\ active_tasks' = active_tasks
                 /\ ~ev'.raised)]_vars

\* C13: a TASK_COMPLETED whose sender identity and source address match no
\* registered device changes nothing: registry, active-task table, Q-table,
\* issue store and pending queue are unchanged, and the handler does not
\* go on to drain the queue.
C13_UnknownSenderNoMutation ==
    [][\A t \in TcpThreads, m \in inflight, status \in Statuses,
          save \in BOOLEAN :
          (/\ TaskCompleted(t, m, status, save)
           /\ \A i \in DOMAIN devices :
                 /\ devices[i].device_id # m.to
                 /\ devices[i].ip # client_ip_of(t))
             => (/\ UNCHANGED <<devices, active_tasks, Q_table,
                                detected_issues, pending_issues,
                                q_table_file>>
                 /\ th'[t].pc = "idle")]_vars

\* a completion from an evicted robot is dropped while another device is
\* registered and the robot's task is still recorded
C13_Witness ==
    /\ ev.op = "done" /\ ~ev.ok
    /\ ev.r \notin Ids(devices)
    /\ devices # <<>>
    /\ ev.task \in DOMAIN active_tasks
    /\ ev.key \in detected_issues

\* C14: a TASK_COMPLETED from a registered agent leaves that agent with an
\* empty assignment slot and status READY for every value of the status
\* field: "completed", "failed", or none.
C14_ReleaseWhateverStatus ==
    [][\A status \in Statuses :
          \A t \in TcpThreads, m \in inflight, save \in BOOLEAN :
             (TaskCompleted(t, m, status, save) /\ m.to \in Ids(devices))
                => (/\ devices'[IndexOfId(devices', m.to)].task_id = NoTask
                    /\ devices'[IndexOfId(devices', m.to)].status = "READY")
      ]_vars

QStates == {<<k, b>> : k \in DOMAIN ISSUE_LOCATIONS,
                         b \in {"near", "medium", "far"}}

\* C15: the Q-update made for a completed task with reward r sets
\* Q[state][agent] to old + 0.1 * (r - old), that is 10 * new = 9 * old + r,
\* and changes no other entry; a first completion after 5 s from a zero
\* entry gives -0.5.
C15_QUpdateRule ==
    [][\A t \in TcpThreads, m \in inflight, status \in Statuses,
          save \in BOOLEAN :
          (/\ TaskCompleted(t, m, status, save)
           /\ ev'.ok
           /\ m.task_id \in DOMAIN active_tasks)
             => LET task == active_tasks[m.task_id]
                    r == QInt(0 - (clock - task.assigned_at))
                    old == QGet(Q_table, task.state, task.robot_id)
                    new == QGet(Q_table', task.state, task.robot_id)
                IN  /\ QSub(QMul(QInt(10), new), QMul(QInt(9), old)) = r
                    /\ \A st \in QStates, a \in Robots :
                          <<st, a>> # <<task.state, task.robot_id>>
                             => QGet(Q_table', st, a) = QGet(Q_table, st, a)
                    /\ (old = QZero /\ clock - task.assigned_at = 5)
                          => new = QVal(-5, 1)]_vars

Required(i) == ISSUE_LOCATIONS[i.issue_type].robot_count

Min(a, b) == IF a <= b THEN a ELSE b

SelectedIds(res) == {res.selected[j].robot_id : j \in DOMAIN res.selected}

\* C16: with EPSILON = 0 a selection that returns, returns
\* min(|A|, required_count) available agents, and each agent returned has a
\* greater Q[state][agent] than each available agent left out, or an equal
\* one and an earlier place in the registry; so with R1 (first, Q = -0.5)
\* and R2 (Q = 0) available, a rust issue selects R2.
C16_GreedySelection ==
    EPSILON = 0 =>
        \A i \in ScanIssues, dr \in DrawSeqs :
            LET A == RobotsWithState(devices, i.issue_type, i.coordinates)
                res == smart_select_robot(devices, i.issue_type,
                                          i.coordinates, Required(i), dr,
                                          Q_table, EPSILON)
                S == SelectedIds(res)
                q(j) == QGet(Q_table, A[j].state, A[j].robot_id)
            IN  ~res.raised =>
                /\ Cardinality(S) = Min(Len(A), Required(i))
                /\ \A a \in DOMAIN A, b \in DOMAIN A :
                      (A[a].robot_id \in S /\ A[b].robot_id \notin S)
                         => \/ QLess(q(b), q(a))
                            \/ (q(a) = q(b) /\ a < b)

\* C17: with EPSILON = 1, for an issue needing k agents with more than k
\* agents available, every set of k available agents is returned by the
\* selection for some outcome of its random draws.
C17_EverySubsetPossible ==
    EPSILON = 100 =>
        \A i \in ScanIssues :
            LET A == RobotsWithState(devices, i.issue_type, i.coordinates)
                avail == {A[j].robot_id : j \in DOMAIN A}
                k == Required(i)
            IN  Cardinality(avail) > k =>
                   \A S \in {T \in SUBSET avail : Cardinality(T) = k} :
                      \E dr \in DrawSeqs :
                         SelectedIds(smart_select_robot(
                             devices, i.issue_type, i.coordinates, k, dr,
                             Q_table, EPSILON)) = S

\* the bucket of the claim, from the squared distance in the plane
PlaneBucket(pos, c) ==
    LET d2 == (c.x - pos.x) * (c.x - pos.x) + (c.y - pos.y) * (c.y - pos.y)
    IN  IF d2 < 300 * 300 THEN "near"
        ELSE IF d2 < 600 * 600 THEN "medium"
        ELSE "far"

PositionOf(devs, id) == devs[IndexOfId(devs, id)].position

C19_SweepExactlySilent ==
    [][cleanup_stale_devices =>
          \A d \in Ids(devices) :
             d \notin Ids(devices') <=> clock - heard[d] > 60]_vars

\* the table as it was in memory when its contents were written
AsSaved(tab) == [kind |-> "defaultdict", tab |-> tab]

\* C20: the table loaded at restart behaves as the table saved: right after
\* the restart every (state, agent) entry has the value written to the
\* file; in every state a selection with the table in memory returns what
\* the same selection returns with the table as it was before saving, for
\* the same draws; and no selection or update fails.
C20_ReloadBehavesAsSaved ==
    /\ ev.op = "restart" =>
          \A st \in QStates, a \in Robots :
             QGet(Q_table, st, a) = QGet(AsSaved(q_table_file.tab), st, a)
    /\ \A i \in ScanIssues, dr \in DrawSeqs :
          LET sel(Q) == smart_select_robot(devices, i.issue_type,
                                           i.coordinates, Required(i), dr,
                                           Q, EPSILON)
          IN  sel(Q_table).selected = sel(AsSaved(Q_table.tab)).selected
    /\ ev.op \in {"scan", "done"} => ~ev.raised

\* C21: in every reachable state, also after the table was loaded from a
\* file, the entry of a (state, agent) pair never written reads as 0 and
\* reading it raises nothing: Q_table[state] is defined for every state,
\* and no selection and no update has raised.
C21_UnseenReadsZero ==
    /\ \A st \in QStates : ~QMissing(Q_table, st)
    /\ \A st \in QStates, a \in Robots :
          (st \notin DOMAIN Q_table.tab \/ a \notin DOMAIN Q_table.tab[st])
             => QGet(Q_table, st, a) = QZero
    /\ ~ev.raised

\* C22: the snapshot file is replaced atomically: after every step, also
\* one in which the process stops in the middle of a save, the file is the
\* one it was before or a complete new snapshot, never a truncated one.
C22_SnapshotNeverPartial ==
    [][\/ q_table_file' = q_table_file
       \/ (q_table_file'.exists /\ q_table_file'.whole)]_vars

\* the registry indices of the robots whose assignment slot is empty
IdleRobotIndices ==
    {j \in DOMAIN devices :
        devices[j].device_type = "robot" /\ devices[j].task_id = NoTask}

\* L holds idle robots only, none twice, in registry order, Min(|A|, n) of them
LookupOK(L, n) ==
    /\ \A i \in DOMAIN L :
          \E j \in IdleRobotIndices :
             devices[j].device_id = L[i].robot_id /\ devices[j].ip = L[i].robot_ip
    /\ \A i, k \in DOMAIN L :
          i < k => /\ L[i].robot_id # L[k].robot_id
                   /\ IndexOfId(devices, L[i].robot_id)
                        < IndexOfId(devices, L[k].robot_id)
    /\ Len(L) = Min(Cardinality(IdleRobotIndices), n)

\* C23: in every reachable state, for every requested number n, both
\* find_available_robots(n) and smart_select_robot(..., n) (when it returns)
\* yield only registered robots whose assignment slot is empty, none of them
\* twice, in registry insertion order, and exactly min(|A|, n) of them, A
\* being the idle robots of the registry.
C23_LookupIdleInOrder ==
    \A n \in 1..2 :
        /\ LookupOK(find_available_robots(devices, n), n)
        /\ \A i \in {RustA, OC}, u \in RandomDraws :
              LET res == smart_select_robot(devices, i.issue_type,
                                            i.coordinates, n,
                                            [k \in 1..2 |-> u], Q_table,
                                            EPSILON)
              IN  ~res.raised => LookupOK(res.selected, n)

\* a drone and an assigned robot are registered ahead of an idle robot, and
\* a lookup for two returns the idle robot alone
C23_Witness ==
    /\ Len(devices) = 3
    /\ devices[1].device_type = "drone"
    /\ devices[2].device_type = "robot" /\ devices[2].task_id # NoTask
    /\ devices[3].device_type = "robot" /\ devices[3].task_id = NoTask
    /\ Len(find_available_robots(devices, 2)) = 1
    /\ find_available_robots(devices, 2)[1].robot_id = devices[3].device_id

\* the agent the thread t is about to emit a MOVEMENT_COMMAND to
TargetOf(t) == th[t].sel[th[t].idx].robot_id

C25_MalformedScanDropped ==
    (ev.op = "badscan")
       => (/\ ev.enq # "appended"
           /\ ~ev.ok
           /\ th[ev.t].pc = "idle")

\* C26: right after a TASK_COMPLETED of a registered agent is processed,
\* and before the queue drain it triggers has looked for agents, the
\* agent's assignment slot is empty, and a lookup made in that state (the
\* one the drain is about to make) returns the agent if it is a robot.
C26_ClearedBeforeDrainSelects ==
    (ev.op = "done" /\ ev.r \in Ids(devices))
       => (/\ ~HoldsTask(devices, ev.r)
           /\ th[ev.t].pc \in {"idle", "piq_peek"}
           /\ ev.r \in Robots =>
                 \E i \in DOMAIN AvailableRobots(devices) :
                    AvailableRobots(devices)[i].robot_id = ev.r)

\* an agent that held an assignment has completed while an issue is
\* queued; the drain is about to look for agents and the slot is empty
C26_Witness ==
    /\ ev.op = "done" /\ ev.r \in Ids(devices) /\ ev.busy
    /\ th[ev.t].pc = "piq_peek"
    /\ pending_issues # <<>>
    /\ ~HoldsTask(devices, ev.r)

\* the records of devs, as a set
Records(devs) == {devs[i] : i \in DOMAIN devs}

\* C27: a sweep removes the registry records of the agents last seen more
\* than 60 s before it and nothing else: the records seen later stay as
\* they are, and the active-task table (the entries of the evicted agents
\* included), the issue store, the pending queue and the Q-table are the
\* same after the sweep as before it.
C27_SweepRemovesRecordOnly ==
    [][cleanup_stale_devices
          => (/\ active_tasks' = active_tasks
              /\ detected_issues' = detected_issues
              /\ pending_issues' = pending_issues
              /\ Q_table' = Q_table
              /\ Records(devices') =
                    {d \in Records(devices) : clock - d.updated_at <= 60}
              /\ Len(devices') = Cardinality(Records(devices')))]_vars

\* a sweep has just evicted an agent that holds an active task
C27_Witness ==
    /\ ev.op = "sweep"
    /\ \E k \in DOMAIN active_tasks :
          /\ active_tasks[k].robot_id \notin Ids(devices)
          /\ active_tasks[k].robot_id \in Robots
    /\ devices # <<>>

\* C28: in every reachable state any two MOVEMENT_COMMANDs that were
\* emitted and are not yet reported carry different task ids, and every
\* successful emission from handle_issue_detection leaves an active-task
\* entry of its own agent under its task id.
C28_TaskIdsUnique ==
    /\ \A m1, m2 \in inflight : m1.task_id = m2.task_id => m1 = m2
    /\ (ev.op = "move" /\ ev.ok /\ ev.via = "hid")
          => \A m \in inflight :
                m.task_id \in DOMAIN active_tasks
                   => active_tasks[m.task_id].robot_id = m.to

\* C29: right after the queue drain has emitted a MOVEMENT_COMMAND to an
\* agent, the active-task table holds an entry for that agent under the
\* command's task id, as it does after an immediate dispatch.
C29_DrainRecordsTask ==
    (ev.op = "move" /\ ev.ok /\ ev.via = "piq")
       => (/\ ev.task \in DOMAIN active_tasks
           /\ active_tasks[ev.task].robot_id = ev.r)

\* the fingerprints of the entries of the queue q, in order
Fingerprints(q) == [i \in DOMAIN q |-> FingerprintOfKey(q[i].issue_key)]

\* C30: the pending queue shrinks only by a drain step that removes its
\* head after the last of the head's required_count commands went out, all
\* of them in that pass; and no two entries of the queue ever have the same
\* fingerprint.
C30_QueueDiscipline ==
    [][/\ (Len(pending_issues') < Len(pending_issues))
            => (/\ pending_issues' = Tail(pending_issues)
                /\ \E t \in Threads :
                      /\ PiqSend(t, TRUE)
                      /\ th[t].key = pending_issues[1].issue_key
                      /\ th[t].nsent + 1 = pending_issues[1].robot_count)
       /\ \A i, j \in DOMAIN pending_issues' :
             Fingerprints(pending_issues')[i]
                = Fingerprints(pending_issues')[j] => i = j]_vars

\* C31: in every reachable state a thread that is performing I/O (a socket
\* connect or send, or the write of the Q-table snapshot) holds no mutex.
C31_NoIoUnderMutex ==
    \A t \in LockThreads : lk.doing[t] = "io" => HeldBy(t) = {}

\* C32: in every reachable state a thread that is reading-and-modifying
\* the device registry holds devices_lock, so at most one thread is in
\* the registry at a time.
C32_RegistryUnderMutex ==
    /\ \A t \in LockThreads :
          lk.doing[t] = "registry" => lk.held["devices_lock"] = t
    /\ \A t, u \in LockThreads :
          (lk.doing[t] = "registry" /\ lk.doing[u] = "registry") => t = u

\* the mutex the thread t is about to request, if any
Requests(t, l) ==
    lk.prog[t] # <<>> /\ Head(lk.prog[t]) = Acq(l)

\* t waits for a mutex that u holds
WaitsFor(t, u) == \E l \in Locks : Requests(t, l) /\ lk.held[l] = u

\* C33: in every reachable state no thread requests devices_lock while it
\* holds tasks_lock or Q_table_lock, none requests tasks_lock while it
\* holds Q_table_lock, and there is no set of threads each of which waits
\* for a mutex held by a thread of the set.
C33_LockOrderNoDeadlock ==
    /\ \A t \in LockThreads :
          /\ Requests(t, "devices_lock")
                => HeldBy(t) \cap {"tasks_lock", "Q_table_lock"} = {}
          /\ Requests(t, "tasks_lock") => "Q_table_lock" \notin HeldBy(t)
    /\ \A S \in SUBSET LockThreads :
          S # {} => \E t \in S : \A u \in S : ~WaitsFor(t, u)

\* a thread holds tasks_lock and requests Q_table_lock, which another
\* thread holds
C33_Witness ==
    \E t, u \in LockThreads :
       /\ t # u
       /\ lk.held["tasks_lock"] = t /\ Requests(t, "Q_table_lock")
       /\ lk.held["Q_table_lock"] = u

\* C34: whenever an issue is in the pending queue while a robot is
\* registered, the issue eventually leaves the queue (it is dispatched),
\* unless the bound on the number of events is reached first; robots stay
\* registered, emissions succeed and every task completes.
C34_QueuedEventuallyDispatched ==
    \A i \in {RustA, RustB} :
        (issue_key(i) \in QueueKeys(pending_issues) /\ RobotIds(devices) # {})
           ~> (issue_key(i) \notin QueueKeys(pending_issues)
                 \/ used >= MaxEvents)

\* C35: right after a CONNECTION_REQUEST from a registered agent that held
\* an assignment is processed, the agent still holds an assignment.
C35_RejoinKeepsAssignment ==
    (ev.op = "reg" /\ ev.busy) => HoldsTask(devices, ev.r)

\* C36: every step that processes a TASK_COMPLETED and releases a device
\* releases the sender of the frame, and the slot it clears held the task
\* the frame names.
C36_CompletionReleasesOwnAgent ==
    [][\A t \in TcpThreads, m \in inflight, status \in Statuses :
          LET f == FirstMatch(devices, m.to, client_ip_of(t))
          IN  (TaskCompleted(t, m, status, FALSE) /\ f # 0)
                 => (/\ devices[f].device_id = m.to
                     /\ devices[f].task_id = m.task_id)]_vars

\* the agents that were sent a MOVEMENT_COMMAND for the issue with key k
\* and have not reported it
WorkingOn(k) == {m.to : m \in {c \in inflight : issue_key(c.issue) = k}}

\* C37: in every reachable state the number of agents working on an issue
\* (sent a MOVEMENT_COMMAND for it, completion not yet processed) is at
\* most the required count of the issue's kind.
C37_AtMostRequiredCount ==
    \A m \in inflight :
        Cardinality(WorkingOn(issue_key(m.issue)))
           <= required_count(issue_key(m.issue))

\* C38: right after a TASK_COMPLETED for the overheated_circuit issue is
\* processed while another agent is still working on that issue, the issue
\* is still in the issue store.
C38_StoredUntilAllComplete ==
    (ev.op = "done" /\ ev.key = issue_key(OC)
        /\ WorkingOn(ev.key) \ {ev.r} # {})
       => ev.key \in detected_issues

\* C39: in every reachable state in which no handler is running, every
\* issue of the issue store is in the pending queue or has an agent
\* working on it.
C39_NoIssueStranded ==
    Quiet => \A k \in detected_issues :
                k \in QueueKeys(pending_issues) \/ WorkingOn(k) # {}

\* C40: right after a MOVEMENT_COMMAND to a registered agent r went out,
\* the device whose slot was set is r; right after a TASK_COMPLETED of a
\* registered agent released a device, that device is the agent.
C40_OnlyTheAgentItself ==
    ((ev.op = "move" /\ ev.ok) \/ (ev.op = "done" /\ ev.ok))
       => (ev.r \in Ids(devices) => ev.marked = ev.r)

====
